---- MODULE Spec2Model ----
(***************************************************************************)
(* Model of takitaro.py, the Inkscape extension that exports one animated  *)
(* SVG file per layer of a drawing.                                        *)
(*                                                                         *)
(* The document is a record: its layer groups in document order, each with *)
(* its "style" attribute and its path elements, and its <style> elements   *)
(* in document order.  Percentages are kept in thousandths of a percent    *)
(* (100000 = 100%), so that round(x, 3) is an integer rounding.            *)
(***************************************************************************)
EXTENDS Integers, Sequences, FiniteSets

VARIABLES options, document, layer_list, export_list, idx, top_layer_id,
          pc, files, written, messages, calls

vars == <<options, document, layer_list, export_list, idx, top_layer_id,
          pc, files, written, messages, calls>>

(***************************************************************************)
(* Bounds of the model.                                                    *)
(***************************************************************************)
MaxLayers == 3
MaxPaths == 1
PathLen == 1
MaxAllocPaths == 3
MaxLength == 10
MaxCalls == 3

RawLabels == {"Sky", "bird"}
Hundred == 100000

(***************************************************************************)
(* Helpers.                                                                *)
(***************************************************************************)
RECURSIVE SumSeq(_)
SumSeq(s) == IF s = <<>> THEN 0 ELSE Head(s) + SumSeq(Tail(s))

Min(a, b) == IF a <= b THEN a ELSE b

SeqsUpTo(S, n) == UNION {[1..k -> S] : k \in 0..n}

RemoveAt(s, i) == SubSeq(s, 1, i - 1) \o SubSeq(s, i + 1, Len(s))

\* str.lower() on the labels of the model
Lower(label) == IF label = "Sky" THEN "sky" ELSE label

(***************************************************************************)
(* The namedtuples Layer and Export.  The field counter of an Export is    *)
(* history: the loop counter of get_export_list at which it was appended.  *)
(***************************************************************************)
Layer(id, label) == [id |-> id, label |-> label]

Export(visible_layers, file_name, counter) ==
    [visible_layers |-> visible_layers, file_name |-> file_name,
     counter |-> counter]

(***************************************************************************)
(* get_layer_list: the layer groups in reversed document order, labels     *)
(* lowercased.                                                             *)
(***************************************************************************)
get_layer_list(doc) ==
    [i \in 1..Len(doc.layers) |->
        Layer(doc.layers[Len(doc.layers) - i + 1].id,
              Lower(doc.layers[Len(doc.layers) - i + 1].label))]

(***************************************************************************)
(* get_export_list.  counter is the 0-based loop counter of the code.      *)
(***************************************************************************)
SkipsLayerAlways(counter, include_background) == counter = 0

SkipsLayerInverted(counter, include_background) ==
    counter = 0 /\ include_background

SkipsLayer(counter, include_background) ==
    counter = 0 /\ ~include_background

VisibleStrictlyBelow(layers, counter) ==
    {layers[i].id : i \in {j \in 1..Len(layers) : j - 1 < counter}}

VisibleLayers(layers, counter) ==
    {layers[i].id : i \in {j \in 1..Len(layers) : j - 1 <= counter}}

\* f"{counter+1:03d}_{label}" or the bare label; ordinal 0 stands for "no prefix"
FileName(layer, counter, enum) ==
    [ordinal |-> IF enum THEN counter + 1 ELSE 0, label |-> layer.label]

RECURSIVE ExportLoop(_, _, _, _)
ExportLoop(layers, counter, opts, acc) ==
    IF counter >= Len(layers) THEN acc
    ELSE IF SkipsLayer(counter, opts.include_background)
         THEN ExportLoop(layers, counter + 1, opts, acc)
         ELSE ExportLoop(layers, counter + 1, opts,
                  Append(acc, Export(VisibleLayers(layers, counter),
                                     FileName(layers[counter + 1], counter,
                                              opts.enumerate),
                                     counter)))

get_export_list(layers, opts) == ExportLoop(layers, 0, opts, <<>>)

(***************************************************************************)
(* Style elements.  ns is the namespace of the element: the xpath          *)
(* "//svg:style" selects elements of the SVG namespace anywhere in the     *)
(* tree, while etree.SubElement(self.root, "style", ...) creates a child   *)
(* of the root whose tag "style" carries no namespace.  parent is "root"   *)
(* for a child of the root element and "defs" for a nested one.            *)
(***************************************************************************)
SvgNs == "svg"
NoNs == ""

StyleTag(id, text, ns, parent) ==
    [id |-> id, text |-> text, ns |-> ns, parent |-> parent]

\* position of the first element the xpath selects whose id is tag_id, or 0
OldTag(doc, tag_id) ==
    LET hits == {i \in 1..Len(doc.styles) :
                    doc.styles[i].ns = SvgNs /\ doc.styles[i].id = tag_id}
    IN IF hits = {} THEN 0
       ELSE CHOOSE i \in hits : \A j \in hits : i <= j

\* self.root.remove(old_tag) raises ValueError for an element that is not a
\* child of the root
RemoveRaises(doc, tag_id) ==
    /\ OldTag(doc, tag_id) # 0
    /\ doc.styles[OldTag(doc, tag_id)].parent # "root"

add_or_replace_style_tag(doc, tag_id, content) ==
    LET old == OldTag(doc, tag_id)
        kept == IF old = 0 THEN doc.styles ELSE RemoveAt(doc.styles, old)
    IN [doc EXCEPT !.styles =
            Append(kept, StyleTag(tag_id, content, NoNs, "root"))]

(***************************************************************************)
(* The text of the generated rules, kept as the values the f-strings       *)
(* interpolate.                                                            *)
(***************************************************************************)
Css(kind, length, start_percent, end_percent, start_length, end_length, timing) ==
    [kind |-> kind, length |-> length, start_percent |-> start_percent,
     end_percent |-> end_percent, start_length |-> start_length,
     end_length |-> end_length, timing |-> timing]

PathStyleId(path_id) == <<"pathanim", path_id[1], path_id[2]>>
AnimId(i) == <<"anim", i, 0>>

\* animate_path on the path at position j of the layer at position pos
animate_path(doc, pos, j, start_percent, end_percent, length, start_length, end_length, anim_id) ==
    LET path_id == doc.layers[pos].paths[j].id
        styled == add_or_replace_style_tag(doc, PathStyleId(path_id),
                      Css("path", length, start_percent, end_percent,
                          start_length, end_length, ""))
    IN [styled EXCEPT !.layers[pos].paths[j].class = anim_id]

(***************************************************************************)
(* add_animation.  round(length / total_length * 100, 3), in thousandths   *)
(* of a percent, rounding half to even.                                    *)
(***************************************************************************)
RoundShare2(length, total) ==
    LET n == length * 10000
        q == n \div total
        r == n % total
    IN 10 * (IF 2 * r < total THEN q
             ELSE IF 2 * r > total THEN q + 1
             ELSE IF q % 2 = 0 THEN q ELSE q + 1)

RoundShare(length, total) ==
    LET n == length * Hundred
        q == n \div total
        r == n % total
    IN IF 2 * r < total THEN q
       ELSE IF 2 * r > total THEN q + 1
       ELSE IF q % 2 = 0 THEN q ELSE q + 1

NextEndUnclamped(end_percent, length, total) ==
    end_percent + RoundShare(length, total)

NextEnd(end_percent, length, total) ==
    Min(end_percent + RoundShare(length, total), Hundred)

RECURSIVE AnimateLoop(_, _, _, _, _, _)
AnimateLoop(doc, pos, index, end_percent, total, anim_id) ==
    IF index > Len(doc.layers[pos].paths) THEN doc
    ELSE LET length == doc.layers[pos].paths[index].length
             start_percent == end_percent
             new_end == NextEnd(end_percent, length, total)
         IN AnimateLoop(
                animate_path(doc, pos, index, start_percent, new_end, length,
                             length, 0, anim_id),
                pos, index + 1, new_end, total, anim_id)

Lengths(doc, pos) ==
    [j \in 1..Len(doc.layers[pos].paths) |-> doc.layers[pos].paths[j].length]

\* "if not lengths": the warning branch
NoLengths(doc, pos) == Lengths(doc, pos) = <<>>

\* length / total_length raises ZeroDivisionError
ZeroTotal(doc, pos) ==
    /\ Lengths(doc, pos) # <<>>
    /\ SumSeq(Lengths(doc, pos)) = 0

add_animation_always(doc, pos, anim_id, timing) ==
    add_or_replace_style_tag(
        IF NoLengths(doc, pos) THEN doc
        ELSE AnimateLoop(doc, pos, 1, 0, SumSeq(Lengths(doc, pos)), anim_id),
        anim_id, Css("class", 0, 0, 0, 0, 0, timing))

add_animation(doc, pos, anim_id, timing) ==
    IF NoLengths(doc, pos) THEN doc
    ELSE add_or_replace_style_tag(
             AnimateLoop(doc, pos, 1, 0, SumSeq(Lengths(doc, pos)), anim_id),
             anim_id, Css("class", 0, 0, 0, 0, 0, timing))

(***************************************************************************)
(* export_to_svg: the file written is a deep copy of the current document  *)
(* with the display of every layer set from the export's visible layers.   *)
(***************************************************************************)
Display(layer_id, visible_layers) ==
    IF layer_id \in visible_layers THEN "display:inline" ELSE "display:none"

SetDisplay(doc, visible_layers) ==
    [doc EXCEPT !.layers =
        [i \in 1..Len(doc.layers) |->
            [doc.layers[i] EXCEPT
                !.style = Display(doc.layers[i].id, visible_layers)]]]

export_without_styles(doc, export_item) ==
    [SetDisplay(doc, export_item.visible_layers) EXCEPT !.styles = <<>>]

export_to_svg(doc, export_item) ==
    SetDisplay(doc, export_item.visible_layers)

\* position in the document of the element getElementById finds
ElementPos(doc, layer_id) ==
    CHOOSE i \in 1..Len(doc.layers) : doc.layers[i].id = layer_id

(***************************************************************************)
(* Input documents.  Layer k of the document (in document order) has id k; *)
(* path j of layer k has id <<k, j>>; no path carries a class yet.         *)
(***************************************************************************)
NoClass == <<"", 0, 0>>

PathElement(k, j, length) == [id |-> <<k, j>>, length |-> length, class |-> NoClass]

LayerElement(k, label, lengths) ==
    [id |-> k, label |-> label, style |-> "display:inline",
     paths |-> [j \in 1..Len(lengths) |-> PathElement(k, j, lengths[j])]]

Document(labels, lengths, styles) ==
    [layers |-> [k \in 1..Len(labels) |-> LayerElement(k, labels[k], lengths[k])],
     styles |-> styles]

Options == [include_background : BOOLEAN, enumerate : BOOLEAN, animation_style : {"ease"}]

LayerDocuments ==
    {Document(labels, lengths, <<>>) :
        <<labels, lengths>> \in
            UNION {[1..n -> RawLabels] \X [1..n -> SeqsUpTo({PathLen}, MaxPaths)] :
                      n \in 0..MaxLayers}}

AllocDocuments ==
    {Document(<<"bird">>, <<lengths>>, <<>>) :
        lengths \in SeqsUpTo(0..MaxLength, MaxAllocPaths) \ {<<>>}}

StyleIds == {PathStyleId(<<1, 1>>), AnimId(0)}
StyleTexts == {Css("path", 1, 0, Hundred, 1, 0, ""), Css("class", 0, 0, 0, 0, 0, "ease")}

\* style elements of a document as loaded: in the SVG namespace, ids unique
LoadedStyles ==
    {s \in SeqsUpTo([id : StyleIds, text : StyleTexts, ns : {SvgNs}, parent : {"root", "defs"}], 2) :
        \A i, j \in 1..Len(s) : s[i].id = s[j].id => i = j}

StyleDocuments == {Document(<<>>, <<>>, styles) : styles \in LoadedStyles}

InitRun(docs, opts) ==
    /\ document \in docs
    /\ options \in opts
    /\ layer_list = <<>>
    /\ export_list = <<>>
    /\ idx = 0
    /\ top_layer_id = 0
    /\ files = <<>>
    /\ written = <<>>
    /\ messages = <<>>
    /\ calls = <<>>

Init == InitRun(LayerDocuments, Options) /\ pc = "start"

InitAlloc ==
    /\ InitRun(AllocDocuments, {o \in Options : o.include_background /\ ~o.enumerate})
    /\ pc = "start"

InitStyle ==
    /\ InitRun(StyleDocuments, {o \in Options : o.include_background /\ ~o.enumerate})
    /\ pc = "style"

(***************************************************************************)
(* effect, one action per statement group.  idx is the 0-based index of    *)
(* the enumerate over export_list.                                         *)
(***************************************************************************)
export_item == export_list[idx + 1]

\* lines 227-229, and the loop test
Plan ==
    /\ pc = "start"
    /\ layer_list' = get_layer_list(document)
    /\ export_list' = get_export_list(layer_list', options)
    /\ idx' = 0
    /\ pc' = IF export_list' = <<>> THEN "summary" ELSE "visibility"
    /\ UNCHANGED <<options, document, top_layer_id, files, written, messages, calls>>

\* lines 231-238
SetVisibility ==
    /\ pc = "visibility"
    /\ document' = SetDisplay(document, export_item.visible_layers)
    /\ pc' = "animate"
    /\ UNCHANGED <<options, layer_list, export_list, idx, top_layer_id, files, written, messages, calls>>

\* list(export_item.visible_layers)[-1]: the last element in the iteration
\* order of a set of strings, which is any of its elements
TopLayerChoices(visible_layers) == visible_layers

\* lines 239-245 with a layer that has paths of positive total length
Animate ==
    /\ pc = "animate"
    /\ \E top \in TopLayerChoices(export_item.visible_layers) :
          LET pos == ElementPos(document, top)
          IN /\ ~NoLengths(document, pos)
             /\ ~ZeroTotal(document, pos)
             /\ top_layer_id' = top
             /\ document' = add_animation(document, pos, AnimId(idx), options.animation_style)
    /\ pc' = "export"
    /\ UNCHANGED <<options, layer_list, export_list, idx, files, written, messages, calls>>

\* lines 239-245 with a layer that has no path: inkex.errormsg and return
AnimateNoPaths ==
    /\ pc = "animate"
    /\ \E top \in TopLayerChoices(export_item.visible_layers) :
          LET pos == ElementPos(document, top)
          IN /\ NoLengths(document, pos)
             /\ top_layer_id' = top
             /\ document' = add_animation(document, pos, AnimId(idx), options.animation_style)
    /\ messages' = Append(messages, [kind |-> "errormsg", n |-> idx])
    /\ pc' = "export"
    /\ UNCHANGED <<options, layer_list, export_list, idx, files, written, calls>>

\* lines 239-245 with paths of total length 0: the division raises, run() reports
\* the traceback and exits
AnimateZeroTotal ==
    /\ pc = "animate"
    /\ \E top \in TopLayerChoices(export_item.visible_layers) :
          /\ ZeroTotal(document, ElementPos(document, top))
          /\ top_layer_id' = top
    /\ messages' = Append(messages, [kind |-> "traceback", n |-> idx])
    /\ pc' = "exit1"
    /\ UNCHANGED <<options, document, layer_list, export_list, idx, files, written, calls>>

\* line 248, and the loop test
ExportToSvg ==
    /\ pc = "export"
    /\ LET output == export_to_svg(document, export_item)
           name == export_item.file_name
       IN /\ files' = [f \in DOMAIN files \cup {name} |->
                          IF f = name THEN output ELSE files[f]]
          /\ written' = Append(written, [file_name |-> name, output |-> output,
                                          idx |-> idx, top |-> top_layer_id])
    /\ idx' = idx + 1
    /\ pc' = IF idx + 1 >= Len(export_list) THEN "summary" ELSE "visibility"
    /\ UNCHANGED <<options, document, layer_list, export_list, top_layer_id, messages, calls>>

\* line 250
Summary ==
    /\ pc = "summary"
    /\ messages' = Append(messages, [kind |-> "msg", n |-> Len(export_list)])
    /\ pc' = "done"
    /\ UNCHANGED <<options, document, layer_list, export_list, idx, top_layer_id, files, written, calls>>

Next == Plan \/ SetVisibility \/ Animate \/ AnimateNoPaths \/ ExportToSvg \/ Summary

Spec == Init /\ [][Next]_vars

NextAlloc == Plan \/ SetVisibility \/ Animate \/ AnimateZeroTotal \/ ExportToSvg \/ Summary

SpecAlloc == InitAlloc /\ [][NextAlloc]_vars

(***************************************************************************)
(* add_or_replace_style_tag called with any ids and contents on a loaded   *)
(* document.  calls is the history of the calls that returned; written     *)
(* is the history of the files written, with the step and its top layer.   *)
(***************************************************************************)
StyleCall ==
    /\ pc = "style"
    /\ Len(calls) < MaxCalls
    /\ \E tag_id \in StyleIds, content \in StyleTexts :
          /\ ~RemoveRaises(document, tag_id)
          /\ document' = add_or_replace_style_tag(document, tag_id, content)
          /\ calls' = Append(calls, [id |-> tag_id, text |-> content])
    /\ UNCHANGED <<options, layer_list, export_list, idx, top_layer_id, pc, files, written, messages>>

StyleCallRaises ==
    /\ pc = "style"
    /\ Len(calls) < MaxCalls
    /\ \E tag_id \in StyleIds : RemoveRaises(document, tag_id)
    /\ messages' = Append(messages, [kind |-> "traceback", n |-> Len(calls)])
    /\ pc' = "exit1"
    /\ UNCHANGED <<options, document, layer_list, export_list, idx, top_layer_id, files, written, calls>>

NextStyle == StyleCall \/ StyleCallRaises

SpecStyle == InitStyle /\ [][NextStyle]_vars

(***************************************************************************)
(* Properties.                                                             *)
(***************************************************************************)
Planned == pc # "start" /\ pc # "style"

Steps == 1..Len(export_list)

\* the ids of the first n layers of the layer order
Prefix(n) == {layer_list[i].id : i \in 1..n}

\* C1: for a non-empty layer list get_export_list emits |layers| steps when
\* include_background is true and |layers|-1 steps when it is false, each for
\* the layer at its counter, in increasing counter order.
C1_ExportCount ==
    (Planned /\ layer_list # <<>>) =>
        /\ Len(export_list) = IF options.include_background
                              THEN Len(layer_list) ELSE Len(layer_list) - 1
        /\ \A k \in Steps :
              /\ export_list[k].counter \in 0..(Len(layer_list) - 1)
              /\ export_list[k].file_name.label =
                     layer_list[export_list[k].counter + 1].label
        /\ \A k \in Steps : k + 1 \in Steps =>
              export_list[k].counter < export_list[k + 1].counter

C1_Witness ==
    /\ pc = "done"
    /\ Len(layer_list) = 3
    /\ ~options.include_background
    /\ Len(export_list) = 2

\* C2: the visible layers of every step are exactly the ids of the layers at
\* index <= the step's source index, and each step's visible set is a strict
\* superset of the step before it.
C2_VisiblePrefix ==
    Planned =>
        /\ \A k \in Steps :
              export_list[k].visible_layers = Prefix(export_list[k].counter + 1)
        /\ \A k \in Steps : k + 1 \in Steps =>
              /\ export_list[k].visible_layers \subseteq export_list[k + 1].visible_layers
              /\ export_list[k].visible_layers # export_list[k + 1].visible_layers

C2_Witness ==
    /\ pc = "done"
    /\ Len(export_list) = 3
    /\ Cardinality(export_list[3].visible_layers) = 3

\* the layers of a written document that are marked display:inline, and whether
\* every layer carries one of the two marks
InlineLayers(doc) ==
    {doc.layers[i].id : i \in {j \in 1..Len(doc.layers) : doc.layers[j].style = "display:inline"}}

AllMarked(doc) ==
    \A i \in 1..Len(doc.layers) : doc.layers[i].style \in {"display:inline", "display:none"}

C4_BackgroundNeverStandalone ==
    (Planned /\ layer_list # <<>> /\ options.include_background) =>
        /\ \A k \in Steps : layer_list[1].id \in export_list[k].visible_layers
        /\ ~ \E k \in Steps :
              /\ export_list[k].counter = 0
              /\ export_list[k].visible_layers = {layer_list[1].id}

\* C4 amended: the index-0 layer is visible in every step, and a step that
\* exports it alone exists exactly when include_background is true.
C4_BackgroundStandaloneIffIncluded ==
    (Planned /\ layer_list # <<>>) =>
        /\ \A k \in Steps : layer_list[1].id \in export_list[k].visible_layers
        /\ (\E k \in Steps :
               /\ export_list[k].counter = 0
               /\ export_list[k].visible_layers = {layer_list[1].id})
           <=> options.include_background

C4_Witness ==
    /\ pc = "done"
    /\ options.include_background
    /\ Len(layer_list) = 2
    /\ export_list[1].visible_layers = {layer_list[1].id}

\* the ids of the style elements of a document, and of the rules add_animation
\* generates for a layer
StyleIdsOf(doc) == {doc.styles[i].id : i \in 1..Len(doc.styles)}

RulesFor(doc, layer_id, step) ==
    LET paths == doc.layers[ElementPos(doc, layer_id)].paths
    IN IF paths = <<>> THEN {}
       ELSE {AnimId(step)} \cup {PathStyleId(paths[j].id) : j \in 1..Len(paths)}

\* C5 as stated: the document written for a step holds style rules of that
\* step's top layer only.
C5_OnlyTopLayerRules ==
    \A w \in 1..Len(written) :
        StyleIdsOf(written[w].output) \subseteq
            RulesFor(written[w].output, written[w].top, written[w].idx)

\* C5 amended: the document written for a step holds the style rules generated
\* for that step's top layer and those generated in every earlier step.
C5_RulesAccumulate ==
    \A w \in 1..Len(written) : \A v \in 1..w :
        RulesFor(written[v].output, written[v].top, written[v].idx)
            \subseteq StyleIdsOf(written[w].output)

C5_Witness ==
    /\ Len(written) = 2
    /\ written[1].top # written[2].top
    /\ AnimId(0) \in StyleIdsOf(written[2].output)
    /\ AnimId(1) \in StyleIdsOf(written[2].output)

\* C6: when the layer taken as the top layer of a step has no path,
\* add_animation only issues the warning and leaves the document (style rules
\* and class attributes) as it was; the step's file is still written and a run
\* that ends has written every step and printed the summary.
C6_NoPathsOnlyWarns ==
    /\ [][(pc = "animate" /\ pc' # "animate"
             /\ NoLengths(document, ElementPos(document, top_layer_id')))
          => /\ document' = document
             /\ messages' = Append(messages, [kind |-> "errormsg", n |-> idx])
             /\ pc' = "export"]_vars
    /\ [][pc = "export" =>
             /\ Len(written') = Len(written) + 1
             /\ written'[Len(written')].idx = idx
             /\ pc' \in {"visibility", "summary"}]_vars
    /\ [](pc = "done" =>
             /\ Len(written) = Len(export_list)
             /\ messages[Len(messages)] = [kind |-> "msg", n |-> Len(export_list)])

C6_Witness ==
    /\ pc = "done"
    /\ Len(export_list) = 3
    /\ Len(written) = 3
    /\ messages[1] = [kind |-> "errormsg", n |-> 0]
    /\ written[1].output.styles = <<>>
    /\ written[3].output.styles # <<>>

\* C7: the layer animated in a step is the layer of highest index among the
\* step's visible layers, the one the step reveals.
C7_TopIsNewlyRevealed ==
    pc = "export" =>
        top_layer_id = layer_list[export_list[idx + 1].counter + 1].id

\* C8: at most one style rule exists per id, and an id passed to
\* add_or_replace_style_tag twice has exactly one rule, with the content of the
\* later call.
TagsWithId(doc, id) == {i \in 1..Len(doc.styles) : doc.styles[i].id = id}

CallsWithId(id) == {c \in 1..Len(calls) : calls[c].id = id}

C8_UpsertOnePerId ==
    /\ \A id \in StyleIds : Cardinality(TagsWithId(document, id)) <= 1
    /\ \A id \in StyleIds : Cardinality(CallsWithId(id)) >= 2 =>
          \A i \in TagsWithId(document, id) :
              \A c \in CallsWithId(id) :
                  (\A d \in CallsWithId(id) : d <= c) =>
                      document.styles[i].text = calls[c].text

\* the allocation add_animation made for the paths of the single layer: the
\* start and end percent written into the keyframes of path j
Animated == pc \in {"export", "summary", "done"}

PathCount == Len(document.layers[1].paths)

Keyframes(j) ==
    document.styles[CHOOSE i \in 1..Len(document.styles) :
                        document.styles[i].id = PathStyleId(<<1, j>>)].text

\* C9: the first start_percent is 0, each start_percent is the end_percent of
\* the path before, and end_percent is non-decreasing and at most 100.
C9_AllocationChained ==
    Animated =>
        /\ Keyframes(1).start_percent = 0
        /\ \A j \in 1..PathCount :
              /\ Keyframes(j).start_percent <= Keyframes(j).end_percent
              /\ Keyframes(j).end_percent <= Hundred
              /\ j < PathCount =>
                    /\ Keyframes(j + 1).start_percent = Keyframes(j).end_percent
                    /\ Keyframes(j).end_percent <= Keyframes(j + 1).end_percent

C9_Witness ==
    /\ pc = "done"
    /\ Lengths(document, 1) = <<1, 1, 4>>
    /\ Keyframes(2).end_percent = 33334
    /\ Keyframes(3).end_percent = Hundred

\* C10 as stated: the allocation starts at 0 and its final end_percent is
\* exactly 100.
C10_CoversExactly ==
    Animated =>
        /\ Keyframes(1).start_percent = 0
        /\ Keyframes(PathCount).end_percent = Hundred

Abs(x) == IF x < 0 THEN -x ELSE x

\* C10 amended: the allocation starts at 0; each path's interval is its share
\* of the total rounded to 3 decimals, or what is left up to 100; the final
\* end_percent is at most 100 and short of 100 by less than 0.001 per path;
\* lengths [10,10,5] give [{0,40},{40,80},{80,100}].
C10_CoversUpToRounding ==
    Animated =>
        LET total == SumSeq(Lengths(document, 1))
        IN /\ Keyframes(1).start_percent = 0
           /\ \A j \in 1..PathCount :
                 LET share == Keyframes(j).end_percent - Keyframes(j).start_percent
                     exact == Keyframes(j).length * Hundred
                 IN \/ 2 * Abs(share * total - exact) <= total
                    \/ (Keyframes(j).end_percent = Hundred /\ share * total <= exact)
           /\ Keyframes(PathCount).end_percent <= Hundred
           /\ Hundred - Keyframes(PathCount).end_percent < PathCount
           /\ Lengths(document, 1) = <<10, 10, 5>> =>
                 /\ Keyframes(1).end_percent = 40000
                 /\ Keyframes(2).end_percent = 80000
                 /\ Keyframes(3).end_percent = Hundred

C10_Witness ==
    /\ pc = "done"
    /\ Lengths(document, 1) = <<1, 1, 1>>
    /\ Keyframes(3).start_percent = 66666
    /\ Keyframes(3).end_percent = 99999

====
